---------------------------- MODULE Spec2Model ----------------------------
(***************************************************************************)
(* A model of src/app.py, the options seller dashboard.  One script run    *)
(* (a Streamlit rerun) is the linear pass                                  *)
(*   widgets -> get_spot_price -> get_options_chain -> expiry/type filter  *)
(*   -> enrich_chain_with_data -> IV filter -> sort -> selectbox ->        *)
(*   premium / payoff curve -> risk metrics,                               *)
(* and the two st.cache_data stores live across runs.  An exception that   *)
(* no line catches ends the run (pc = "crashed").  The tables and charts   *)
(* (lines 93-95, 108-128, 148-155) draw what the run computed and are not  *)
(* modelled.                                                               *)
(*                                                                         *)
(* Numbers.  Prices, strikes, bids, asks, IVs are integers.  Three values  *)
(* are kept as scaled integers so that the arithmetic of the source stays  *)
(* exact: amount_to_sell is in tenths of a contract (the widget's step is  *)
(* 0.1), premium is in halves (it is a midpoint of two integers), and the  *)
(* payoff values, max_profit are in twentieths (tenths x halves).          *)
(* Timestamps are in seconds: line 51 divides the exchange's milliseconds  *)
(* by 1000 before anything else, and the model holds that quotient.        *)
(* Strings that are searched or re-cased are sequences of one-character    *)
(* strings.                                                                *)
(***************************************************************************)
EXTENDS Integers, Sequences, FiniteSets, TLC

(***************************************************************************)
(* Python values                                                           *)
(***************************************************************************)
\* Python's None, among integers (no price, IV or strike of the model is it).
None == -999999

\* bool(x) of a number-or-None: None and 0 are falsy.
Truthy(x) == x # None /\ x # 0

\* int(x / d) for an integer x and d > 0: truncation toward zero.
TruncDiv(x, d) == IF x >= 0 THEN x \div d ELSE -((-x) \div d)

Max(a, b) == IF a >= b THEN a ELSE b

SeqToSet(s) == { s[i] : i \in 1..Len(s) }

(***************************************************************************)
(* str.upper(), str.capitalize()                                           *)
(***************************************************************************)
LowerLetters == << "a","b","c","d","e","f","g","h","i","j","k","l","m",
                   "n","o","p","q","r","s","t","u","v","w","x","y","z" >>
UpperLetters == << "A","B","C","D","E","F","G","H","I","J","K","L","M",
                   "N","O","P","Q","R","S","T","U","V","W","X","Y","Z" >>

UpperChar(c) ==
    IF \E i \in 1..26 : LowerLetters[i] = c
    THEN UpperLetters[CHOOSE i \in 1..26 : LowerLetters[i] = c]
    ELSE c

LowerChar(c) ==
    IF \E i \in 1..26 : UpperLetters[i] = c
    THEN LowerLetters[CHOOSE i \in 1..26 : UpperLetters[i] = c]
    ELSE c

\* s.upper()
Upper(s) == [ i \in 1..Len(s) |-> UpperChar(s[i]) ]

\* s.capitalize(): first character upper-cased, the rest lower-cased.
Capitalize(s) ==
    [ i \in 1..Len(s) |-> IF i = 1 THEN UpperChar(s[i]) ELSE LowerChar(s[i]) ]

(***************************************************************************)
(* datetime.fromtimestamp(ts).strftime('%d%b%y').upper()                   *)
(* (the process clock is taken to be UTC and the locale C)                 *)
(***************************************************************************)
Digits == << "0","1","2","3","4","5","6","7","8","9" >>

\* a two-digit, zero-padded field (%d, %y)
TwoDigits(n) == << Digits[((n \div 10) % 10) + 1], Digits[(n % 10) + 1] >>

\* %b
MonthAbbr == << <<"J","a","n">>, <<"F","e","b">>, <<"M","a","r">>,
                <<"A","p","r">>, <<"M","a","y">>, <<"J","u","n">>,
                <<"J","u","l">>, <<"A","u","g">>, <<"S","e","p">>,
                <<"O","c","t">>, <<"N","o","v">>, <<"D","e","c">> >>

\* The proleptic Gregorian date of a day number (days since 1970-01-01).
CivilFromDays(days) ==
    LET z   == days + 719468
        era == z \div 146097
        doe == z - era * 146097
        yoe == (doe - doe \div 1460 + doe \div 36524 - doe \div 146096) \div 365
        doy == doe - (365 * yoe + yoe \div 4 - yoe \div 100)
        mp  == (5 * doy + 2) \div 153
        d   == doy - (153 * mp + 2) \div 5 + 1
        m   == IF mp < 10 THEN mp + 3 ELSE mp - 9
        y   == yoe + era * 400 + (IF m <= 2 THEN 1 ELSE 0)
    IN  [ year |-> y, month |-> m, day |-> d ]

\* line 51: the expiry label of an expiration timestamp (seconds)
ExpiryLabel(ts) ==
    LET c == CivilFromDays(ts \div 86400)
    IN  Upper(TwoDigits(c.day) \o MonthAbbr[c.month] \o TwoDigits(c.year % 100))

(***************************************************************************)
(* Series.str.contains(pat): pandas' default is regex = True, so the       *)
(* pattern is compiled by re and searched, not compared as a substring.    *)
(* The pattern language modelled: literal characters, "." (any character), *)
(* and "(" which, never closed in these patterns, makes re.compile raise.  *)
(***************************************************************************)
RegexCompiles(pat) == \A i \in 1..Len(pat) : pat[i] # "("

RegexMatchesAt(pat, s, i) ==
    \A j \in 1..Len(pat) : pat[j] = "." \/ pat[j] = s[i + j - 1]

\* re.search(pat, s) is not None
RegexSearch(pat, s) ==
    \E i \in 1..(Len(s) - Len(pat) + 1) : RegexMatchesAt(pat, s, i)

\* line 101: the mask chain_df['Expiry'].str.contains(expiry_filter.upper())
ExpiryMask(label, filter) == RegexSearch(Upper(filter), label)

(***************************************************************************)
(* Program constants                                                       *)
(***************************************************************************)
\* @st.cache_data(ttl=60), line 33
SpotTTL == 60
\* @st.cache_data(ttl=300), line 43
ChainTTL == 300

\* line 24, line 25: the selectbox options (option types as str.capitalize
\* produces them)
Assets == { "BTC", "ETH" }
Call == << "C", "a", "l", "l" >>
Put == << "P", "u", "t" >>
OptionTypes == { Call, Put }

\* The keys of the Greeks dict, lines 81-87, with the exchange's field names.
GreekKeys == { <<"Delta", "delta">>, <<"Gamma", "gamma">>, <<"Vega", "vega">>,
               <<"Theta", "theta">>, <<"Rho", "rho">> }

(***************************************************************************)
(* Pure parts of the script                                                *)
(***************************************************************************)
\* lines 51-61: one raw instrument record to one row of the chain; index is
\* the row's label in the DataFrame (its position in the fetch).
ChainRow(inst, index) ==
    [ Index      |-> index,
      Instrument |-> inst.instrument_name,
      Expiry     |-> ExpiryLabel(inst.expiration_timestamp),
      Strike     |-> inst.strike,
      Type       |-> Capitalize(inst.option_type),
      IV         |-> None,
      Bid        |-> None,
      Ask        |-> None,
      Greeks     |-> {} ]

\* lines 49-62: the DataFrame of a listing
ChainFrame(instruments) ==
    [ i \in 1..Len(instruments) |-> ChainRow(instruments[i], i - 1) ]

\* dict.get(key) on an exchange payload (a set of <<key, value>> pairs)
Get(payload, key) ==
    IF \E kv \in payload : kv[1] = key
    THEN (CHOOSE kv \in payload : kv[1] = key)[2]
    ELSE None

\* lines 72-74: a row with the book summary's three fields
WithSummary(row, summary) ==
    [ row EXCEPT !.IV  = Get(summary, "mark_iv"),
                 !.Bid = Get(summary, "bid_price"),
                 !.Ask = Get(summary, "ask_price") ]

\* lines 81-87: a row with the Greeks dict
WithGreeks(row, g_data) ==
    [ row EXCEPT !.Greeks = { << k[1], Get(g_data, k[2]) >> : k \in GreekKeys } ]

\* line 104: one element of the mask chain_df['IV'] >= min_iv.  The column is
\* of object dtype; pandas compares a None element as False.
IVMask(row, threshold) == row.IV # None /\ row.IV >= threshold

\* line 102: one element of the mask chain_df['Type'] == option_type
TypeMask(row, type) == row.Type = type

\* line 136, in halves: the midpoint when both quotes are truthy, else 0
Premium(bid, ask) == IF Truthy(ask) /\ Truthy(bid) THEN bid + ask ELSE 0

\* range(start, stop, step) for step # 0
RangeLen(start, stop, step) ==
    IF step > 0
    THEN (IF stop > start THEN (stop - start + step - 1) \div step ELSE 0)
    ELSE (IF start > stop THEN (start - stop + (-step) - 1) \div (-step) ELSE 0)

Range(start, stop, step) ==
    [ i \in 1..RangeLen(start, stop, step) |-> start + (i - 1) * step ]

\* line 141: the three arguments of range
GridStart(spot) == TruncDiv(spot, 2)
GridStop(spot) == TruncDiv(3 * spot, 2)
GridStep(spot) == TruncDiv(spot, 100)

\* ShortPayoff with the intrinsic value of the other option type: the two
\* branches of lines 142-145 exchanged.
ShortPayoffSidesExchanged(p, strike, prem, type, amount) ==
    IF type = Call
    THEN (prem - Max(strike - p, 0)) * amount
    ELSE (prem - Max(p - strike, 0)) * amount

\* lines 142-146 at one price, price and strike in halves, the result in
\* twentieths: (premium - intrinsic value) * amount_to_sell
ShortPayoff(p, strike, prem, type, amount) ==
    IF type = Call
    THEN (prem - Max(p - strike, 0)) * amount
    ELSE (prem - Max(strike - p, 0)) * amount

\* line 159, in twentieths
MaxProfit(prem, amount) == prem * amount

\* Breakeven with the call's formula for both option types.
BreakevenAlwaysAbove(strike, prem, type) == 2 * strike + prem

\* line 160, in halves
Breakeven(strike, prem, type) ==
    IF type = Call THEN 2 * strike + prem ELSE 2 * strike - prem

\* line 163: "Unlimited" for a call, strike * amount_to_sell (tenths) for a put
MaxLoss(strike, type, amount) ==
    IF type = Call
    THEN [ unlimited |-> TRUE, value |-> 0 ]
    ELSE [ unlimited |-> FALSE, value |-> strike * amount ]

\* line 105: sort_values(by='Strike') with pandas' default kind 'quicksort',
\* which is not a stable sort: every arrangement of the rows that is ordered
\* by strike is an outcome.
IsSortedByStrike(df) ==
    \A i \in 1..(Len(df) - 1) : df[i].Strike <= df[i + 1].Strike

SortOutcomes(df) ==
    { [ i \in 1..Len(df) |-> df[p[i]] ] :
        p \in { q \in [ 1..Len(df) -> 1..Len(df) ] :
                  /\ \A i, j \in 1..Len(df) : i # j => q[i] # q[j]
                  /\ \A i \in 1..(Len(df) - 1) :
                        df[q[i]].Strike <= df[q[i + 1]].Strike } }

(***************************************************************************)
(* The exchange: what each of the four endpoints may answer.  "ok" is a    *)
(* 200 with the documented fields, "http_error" a status other than 200,   *)
(* "network_error" a requests.get that raises, "malformed" a 200 whose     *)
(* body lacks what the code indexes (no 'result', an empty 'result' list). *)
(***************************************************************************)
Reply(status, body) == [ status |-> status, body |-> body ]

Raises(reply) == reply.status \in { "network_error", "malformed" }

\* The exception a raising reply ends the run with.
ExceptionOf(reply) ==
    IF reply.status = "network_error" THEN "ConnectionError" ELSE "KeyError"

\* 27 Sep 2024, 27 Dec 2024 and 28 Mar 2025 at 08:00 UTC, in seconds.
Sep24 == 19993 * 86400 + 28800
Dec24 == 20084 * 86400 + 28800
Mar25 == 20175 * 86400 + 28800

Instr(name, ts, strike, type) ==
    [ instrument_name |-> name, expiration_timestamp |-> ts,
      strike |-> strike, option_type |-> type ]

RawCall == << "c", "a", "l", "l" >>
RawPut == << "p", "u", "t" >>

\* The option instruments of currency a, in the order the exchange lists
\* them: two puts of one strike, a call above a call of a lower strike,
\* then a second call and a third put of the strikes already listed.
Instruments(a) ==
    << Instr(<< a, "27SEP24-3000-P" >>, Sep24, 3000, RawPut),
       Instr(<< a, "27DEC24-3000-P" >>, Dec24, 3000, RawPut),
       Instr(<< a, "27SEP24-60000-C" >>, Sep24, 60000, RawCall),
       Instr(<< a, "28MAR25-50000-C" >>, Mar25, 50000, RawCall),
       Instr(<< a, "27DEC24-60000-C" >>, Dec24, 60000, RawCall),
       Instr(<< a, "28MAR25-3000-P" >>, Mar25, 3000, RawPut) >>

\* The most instruments a get_instruments result lists.
MaxListing == 4

\* A get_instruments result of n instruments.
Listing(a, n) ==
    SubSeq(Instruments(a), 1, IF n <= Len(Instruments(a)) THEN n ELSE Len(Instruments(a)))

Summary(iv, bid, ask) ==
    { << "mark_iv", iv >>, << "bid_price", bid >>, << "ask_price", ask >> }

\* get_greeks result
GreeksPayload ==
    { << "delta", 45 >>, << "gamma", 1 >>, << "vega", 30 >>,
      << "theta", -12 >>, << "rho", 2 >> }

SpotReplies ==
    { Reply("network_error", None), Reply("http_error", None),
      Reply("malformed", None) }
    \cup { Reply("ok", v) : v \in { 100000, 2000, 50, 0 } }

ChainReplies(a) ==
    { Reply("network_error", << >>), Reply("http_error", << >>),
      Reply("malformed", << >>) }
    \cup { Reply("ok", Listing(a, n)) : n \in 0..MaxListing }

\* A book summary with a two-sided market, one with a zero bid, one with a
\* low IV, and one from which the exchange left fields out.
SummaryReplies ==
    { Reply("network_error", {}), Reply("http_error", {}),
      Reply("malformed", {}) }
    \cup { Reply("ok", b) :
             b \in { Summary(60, 450, 550), Summary(60, 0, 10),
                     Summary(40, 70, 90), { << "ask_price", 90 >> } } }

GreeksReplies ==
    { Reply("network_error", {}), Reply("http_error", {}),
      Reply("ok", GreeksPayload) }

\* What the user may type into "Filter Expiry".
ExpiryFilters ==
    { << >>, << "s", "e", "p" >>, << "2", ".", "S" >>, << "(" >>,
      << "J", "U", "N" >> }

\* Slider positions and contract counts (tenths) the user may set.
MinIVs == { 0, 50 }
Amounts == { 10, 20 }

(***************************************************************************)
(* State                                                                   *)
(***************************************************************************)
VARIABLES
    \* the sidebar widgets, lines 24-30
    asset, option_type, expiry_filter, min_iv, amount_to_sell, refresh,
    \* the st.cache_data stores of get_spot_price and get_options_chain, by
    \* argument: [hit, value, age] (age: time since the value was stored)
    spot_cache, chain_cache,
    \* time since the last request sent to the ticker / instruments endpoint,
    \* by asset, capped at the TTL
    since_spot_request, since_chain_request,
    \* what the two cached calls of this run did, and what the exchange
    \* answered to the two requests of each enriched row
    fetch_log, enrich_log,
    \* the run: where the script is, and the exception that ended it
    pc, error,
    \* the script's variables
    spot_price, fetched, chain_df, idx, enriched, selected_instrument,
    premium, warning, prices, payoff, max_profit, breakeven, max_loss

widgets == << asset, option_type, expiry_filter, min_iv, amount_to_sell, refresh >>
caches == << spot_cache, chain_cache, since_spot_request, since_chain_request >>
frames == << fetched, chain_df, idx, enriched >>
NotSent == Reply("not_sent", {})
calc == << selected_instrument, premium, warning, prices, payoff,
           max_profit, breakeven, max_loss >>
vars == << widgets, caches, fetch_log, enrich_log, pc, error, spot_price,
          frames, calc >>

Miss(empty) == [ hit |-> FALSE, value |-> empty, age |-> 0 ]
Stored(v) == [ hit |-> TRUE, value |-> v, age |-> 0 ]

NoFetch ==
    [ requested |-> FALSE, reply |-> "none", gap |-> 0, cached |-> FALSE, age |-> 0 ]
NoError == [ type |-> "none", at |-> "none" ]
NoLoss == [ unlimited |-> FALSE, value |-> 0 ]

\* A process that has just started: nothing cached, no run yet.
Init ==
    /\ asset = "BTC" /\ option_type = Call /\ expiry_filter = << >>
    /\ min_iv = 50 /\ amount_to_sell = 10 /\ refresh = FALSE
    /\ spot_cache = [ a \in Assets |-> Miss(None) ]
    /\ chain_cache = [ a \in Assets |-> Miss(<< >>) ]
    /\ since_spot_request = [ a \in Assets |-> SpotTTL ]
    /\ since_chain_request = [ a \in Assets |-> ChainTTL ]
    /\ fetch_log = [ spot |-> NoFetch, chain |-> NoFetch ]
    /\ enrich_log = << >>
    /\ pc = "idle" /\ error = NoError
    /\ spot_price = None
    /\ fetched = << >> /\ chain_df = << >> /\ idx = 0 /\ enriched = << >>
    /\ selected_instrument = << >> /\ premium = 0 /\ warning = FALSE
    /\ prices = << >> /\ payoff = << >>
    /\ max_profit = 0 /\ breakeven = 0 /\ max_loss = NoLoss

(***************************************************************************)
(* st.cache_data                                                           *)
(***************************************************************************)
Min(a, b) == IF a <= b THEN a ELSE b

\* An entry dt later; one as old as its TTL is expired and gone.
Aged(entry, dt, ttl, empty) ==
    IF entry.hit /\ entry.age + dt < ttl
    THEN [ entry EXCEPT !.age = entry.age + dt ]
    ELSE Miss(empty)

\* The entry the decorated call may return instead of running the function.
Fresh(entry, ttl) == entry.hit /\ entry.age < ttl

(***************************************************************************)
(* The run                                                                 *)
(***************************************************************************)
\* A raised exception ends the script run; Streamlit shows it.
Crash(exception) ==
    pc' = "crashed" /\ error' = [ type |-> exception, at |-> pc ]

\* A user interaction dt after the last one: a page load or reload (no
\* widget changes), a change of one widget, or a click on the refresh button
\* (refresh is True in the run the click starts, and is read by nothing).
\* The script then runs from its first line.
Interact(dts, assets, types, filters, ivs, amounts, clicks) ==
    /\ pc \in { "idle", "done", "crashed" }
    /\ \E dt \in dts :
          /\ spot_cache' =
                [ a \in Assets |-> Aged(spot_cache[a], dt, SpotTTL, None) ]
          /\ chain_cache' =
                [ a \in Assets |-> Aged(chain_cache[a], dt, ChainTTL, << >>) ]
          /\ since_spot_request' =
                [ a \in Assets |-> Min(since_spot_request[a] + dt, SpotTTL) ]
          /\ since_chain_request' =
                [ a \in Assets |-> Min(since_chain_request[a] + dt, ChainTTL) ]
    /\ \E w \in 1..6 :
          \E v \in << assets, types, filters, ivs, amounts, clicks >>[w] :
              /\ asset' = (IF w = 1 THEN v ELSE asset)
              /\ option_type' = (IF w = 2 THEN v ELSE option_type)
              /\ expiry_filter' = (IF w = 3 THEN v ELSE expiry_filter)
              /\ min_iv' = (IF w = 4 THEN v ELSE min_iv)
              /\ amount_to_sell' = (IF w = 5 THEN v ELSE amount_to_sell)
              /\ refresh' = (IF w = 6 THEN v ELSE FALSE)
    /\ fetch_log' = [ spot |-> NoFetch, chain |-> NoFetch ]
    /\ enrich_log' = << >>
    /\ pc' = "spot" /\ error' = NoError
    /\ spot_price' = None
    /\ fetched' = << >> /\ chain_df' = << >> /\ idx' = 0 /\ enriched' = << >>
    /\ selected_instrument' = << >> /\ premium' = 0 /\ warning' = FALSE
    /\ prices' = << >> /\ payoff' = << >>
    /\ max_profit' = 0 /\ breakeven' = 0 /\ max_loss' = NoLoss

\* lines 33-40 and line 91: spot_price = get_spot_price(asset)
GetSpotPrice(replies) ==
    /\ pc = "spot"
    /\ IF Fresh(spot_cache[asset], SpotTTL)
       THEN /\ spot_price' = spot_cache[asset].value
            /\ fetch_log' = [ fetch_log EXCEPT !.spot =
                   [ requested |-> FALSE, reply |-> "none", gap |-> 0, cached |-> TRUE,
                     age |-> spot_cache[asset].age ] ]
            /\ pc' = "chain"
            /\ UNCHANGED << spot_cache, since_spot_request, error >>
       ELSE \E r \in replies :
            /\ since_spot_request' = [ since_spot_request EXCEPT ![asset] = 0 ]
            /\ fetch_log' = [ fetch_log EXCEPT !.spot =
                   [ requested |-> TRUE, reply |-> r.status,
                     gap |-> since_spot_request[asset],
                     cached |-> FALSE, age |-> 0 ] ]
            /\ IF Raises(r)
               THEN /\ Crash(ExceptionOf(r))
                    /\ UNCHANGED << spot_cache, spot_price >>
               ELSE /\ spot_price' = (IF r.status = "ok" THEN r.body ELSE None)
                    /\ spot_cache' = [ spot_cache EXCEPT ![asset] = Stored(spot_price') ]
                    /\ pc' = "chain"
                    /\ UNCHANGED error
    /\ UNCHANGED << widgets, chain_cache, since_chain_request, enrich_log,
                    frames, calc >>

\* lines 43-63 and lines 97-98, 165-166: chain_df = get_options_chain(asset);
\* an empty frame ends the run with "Failed to fetch options chain."
GetOptionsChain(replies) ==
    /\ pc = "chain"
    /\ IF Fresh(chain_cache[asset], ChainTTL)
       THEN /\ fetched' = chain_cache[asset].value
            /\ fetch_log' = [ fetch_log EXCEPT !.chain =
                   [ requested |-> FALSE, reply |-> "none", gap |-> 0, cached |-> TRUE,
                     age |-> chain_cache[asset].age ] ]
            /\ pc' = (IF fetched' = << >> THEN "done" ELSE "filter")
            /\ UNCHANGED << chain_cache, since_chain_request, error >>
       ELSE \E r \in replies :
            /\ since_chain_request' = [ since_chain_request EXCEPT ![asset] = 0 ]
            /\ fetch_log' = [ fetch_log EXCEPT !.chain =
                   [ requested |-> TRUE, reply |-> r.status,
                     gap |-> since_chain_request[asset],
                     cached |-> FALSE, age |-> 0 ] ]
            /\ IF Raises(r)
               THEN /\ Crash(ExceptionOf(r))
                    /\ UNCHANGED << chain_cache, fetched >>
               ELSE /\ fetched' = (IF r.status = "ok" THEN ChainFrame(r.body) ELSE << >>)
                    /\ chain_cache' = [ chain_cache EXCEPT ![asset] = Stored(fetched') ]
                    /\ pc' = (IF fetched' = << >> THEN "done" ELSE "filter")
                    /\ UNCHANGED error
    /\ chain_df' = fetched'
    /\ UNCHANGED << widgets, spot_cache, since_spot_request, enrich_log,
                    spot_price, idx, enriched, calc >>

\* lines 100-102: the expiry mask (a regex search, which may not compile) and
\* the type mask
FilterExpiryType ==
    /\ pc = "filter"
    /\ IF expiry_filter # << >> /\ ~RegexCompiles(Upper(expiry_filter))
       THEN /\ Crash("re.error")
            /\ UNCHANGED << chain_df, idx >>
       ELSE LET KeepRow(row) ==
                    /\ expiry_filter # << >> => ExpiryMask(row.Expiry, expiry_filter)
                    /\ TypeMask(row, option_type)
            IN  /\ chain_df' = SelectSeq(chain_df, KeepRow)
                /\ idx' = 1
                /\ pc' = "enrich"
                /\ UNCHANGED error
    /\ UNCHANGED << widgets, caches, fetch_log, enrich_log, spot_price, fetched,
                    enriched, calc >>

\* lines 67-87: one iteration of the loop of enrich_chain_with_data, the
\* book summary request and the Greeks request of row idx
EnrichRow(summaries, greeks) ==
    /\ pc = "enrich"
    /\ idx <= Len(chain_df)
    /\ \E s \in summaries :
          IF Raises(s)
          THEN /\ Crash(IF s.status = "malformed" THEN "IndexError" ELSE ExceptionOf(s))
               /\ enrich_log' = Append(enrich_log, [ summary |-> s, greeks |-> NotSent ])
               /\ UNCHANGED << chain_df, idx >>
          ELSE \E g \in greeks :
               LET quoted == IF s.status = "ok"
                             THEN WithSummary(chain_df[idx], s.body)
                             ELSE chain_df[idx]
               IN  /\ enrich_log' = Append(enrich_log, [ summary |-> s, greeks |-> g ])
                   /\ IF Raises(g)
                      THEN /\ Crash(ExceptionOf(g))
                           /\ chain_df' = [ chain_df EXCEPT ![idx] = quoted ]
                           /\ UNCHANGED idx
                      ELSE /\ chain_df' = [ chain_df EXCEPT ![idx] =
                                  IF g.status = "ok" THEN WithGreeks(quoted, g.body)
                                  ELSE quoted ]
                           /\ idx' = idx + 1
                           /\ UNCHANGED << pc, error >>
    /\ UNCHANGED << widgets, caches, fetch_log, spot_price, fetched, enriched, calc >>

\* line 88 and lines 104-105: the loop is over; the IV mask, then sort_values
FilterIVAndSort ==
    /\ pc = "enrich"
    /\ idx > Len(chain_df)
    /\ enriched' = chain_df
    /\ LET KeepRow(row) == IVMask(row, min_iv)
       IN  chain_df' \in SortOutcomes(SelectSeq(chain_df, KeepRow))
    /\ pc' = "select"
    /\ UNCHANGED << widgets, caches, fetch_log, enrich_log, error, spot_price,
                    fetched, idx, calc >>

\* lines 132-133: the selectbox over the displayed instruments.  With no
\* option it returns None and the block under it is skipped.
SelectInstrument ==
    /\ pc = "select"
    /\ IF chain_df = << >>
       THEN /\ selected_instrument' = << >>
            /\ pc' = "done"
       ELSE /\ \E i \in 1..Len(chain_df) :
                  selected_instrument' = chain_df[i].Instrument
            /\ pc' = "payoff"
    /\ UNCHANGED << widgets, caches, fetch_log, enrich_log, error, spot_price,
                    frames, premium, warning, prices, payoff, max_profit,
                    breakeven, max_loss >>

\* line 134: .iloc[0] of the rows with the selected name
SelectedRow ==
    chain_df[CHOOSE i \in 1..Len(chain_df) :
                /\ chain_df[i].Instrument = selected_instrument
                /\ \A j \in 1..(i - 1) : chain_df[j].Instrument # selected_instrument]

\* lines 134-146: premium, the warning, the price grid and the payoff curve.
\* None * 0.5 is a TypeError; range with a step of 0 is a ValueError.
PayoffDiagram ==
    /\ pc = "payoff"
    /\ premium' = Premium(SelectedRow.Bid, SelectedRow.Ask)
    /\ warning' = (premium' = 0)
    /\ IF spot_price = None
       THEN /\ Crash("TypeError")
            /\ UNCHANGED << prices, payoff >>
       ELSE IF GridStep(spot_price) = 0
       THEN /\ Crash("ValueError")
            /\ UNCHANGED << prices, payoff >>
       ELSE /\ prices' = Range(GridStart(spot_price), GridStop(spot_price),
                               GridStep(spot_price))
            /\ payoff' = [ i \in 1..Len(prices') |->
                             ShortPayoff(2 * prices'[i], 2 * SelectedRow.Strike,
                                         premium', option_type, amount_to_sell) ]
            /\ pc' = "risk"
            /\ UNCHANGED error
    /\ UNCHANGED << widgets, caches, fetch_log, enrich_log, spot_price, frames,
                    selected_instrument, max_profit, breakeven, max_loss >>

\* lines 158-163: the three risk metrics
RiskMetrics ==
    /\ pc = "risk"
    /\ max_profit' = MaxProfit(premium, amount_to_sell)
    /\ breakeven' = Breakeven(SelectedRow.Strike, premium, option_type)
    /\ max_loss' = MaxLoss(SelectedRow.Strike, option_type, amount_to_sell)
    /\ pc' = "done"
    /\ UNCHANGED << widgets, caches, fetch_log, enrich_log, error, spot_price,
                    frames, selected_instrument, premium, warning, prices, payoff >>

(***************************************************************************)
(* Spec: runs further apart than both TTLs, over the whole of the widgets' *)
(* and the exchange's modelled answers.                                    *)
(***************************************************************************)
Next ==
    \/ Interact({ ChainTTL }, Assets, OptionTypes, ExpiryFilters, MinIVs,
                Amounts, { FALSE })
    \/ GetSpotPrice(SpotReplies)
    \/ GetOptionsChain(ChainReplies(asset))
    \/ FilterExpiryType
    \/ EnrichRow(SummaryReplies, GreeksReplies)
    \/ FilterIVAndSort
    \/ SelectInstrument
    \/ PayoffDiagram
    \/ RiskMetrics

Spec == Init /\ [][Next]_vars

(***************************************************************************)
(* SpecCache: runs at any spacing (at once, or TickStep after the last),  *)
(* for one asset, with the other widgets left at their defaults and a      *)
(* small exchange.                                                         *)
(***************************************************************************)
TickStep == 30

CacheSpotReplies ==
    { Reply("network_error", None), Reply("http_error", None),
      Reply("ok", 100000) }

CacheChainReplies(a) ==
    { Reply("network_error", << >>), Reply("http_error", << >>),
      Reply("ok", Listing(a, 3)) }

CacheSummaryReplies ==
    { Reply("http_error", {}), Reply("ok", Summary(60, 450, 550)) }

CacheGreeksReplies == { Reply("ok", GreeksPayload) }

NextCache ==
    \/ Interact({ 0, TickStep }, { "BTC" }, { Call }, { << >> }, { 50 }, { 10 },
                BOOLEAN)
    \/ GetSpotPrice(CacheSpotReplies)
    \/ GetOptionsChain(CacheChainReplies(asset))
    \/ FilterExpiryType
    \/ EnrichRow(CacheSummaryReplies, CacheGreeksReplies)
    \/ FilterIVAndSort
    \/ SelectInstrument
    \/ PayoffDiagram
    \/ RiskMetrics

SpecCache == Init /\ [][NextCache]_vars

(***************************************************************************)
(* Properties                                                              *)
(***************************************************************************)
\* The run is past line 105: the displayed frame exists.
Displayed == pc \in { "select", "payoff", "risk", "done" } /\ fetched # << >>

\* The run is past line 136 for a selected instrument.
PremiumComputed ==
    \/ pc = "risk"
    \/ pc = "done" /\ selected_instrument # << >>
    \/ pc = "crashed" /\ error.at = "payoff"

\* The run is past line 146: the payoff curve exists.
CurveComputed == pc = "risk" \/ (pc = "done" /\ selected_instrument # << >>)

\* The run is past line 163.
RiskComputed == pc = "done" /\ selected_instrument # << >>

\* sub occurs in s (a plain substring, every character literal)
Contains(s, sub) ==
    \E i \in 1..(Len(s) - Len(sub) + 1) :
        \A j \in 1..Len(sub) : sub[j] = s[i + j - 1]

\* The three predicates of the filter as the specification words them, on a
\* fetched row whose IV is iv.
Retained(row, iv) ==
    /\ row.Type = option_type
    /\ expiry_filter # << >> => Contains(Upper(row.Expiry), Upper(expiry_filter))
    /\ iv # None /\ iv >= min_iv

\* C1: whatever the exchange answers, get_spot_price returns None and
\* get_options_chain an empty frame on every failure, and neither raises.
C1_FetchFailuresAreSwallowed ==
    /\ error.at \notin { "spot", "chain" }
    /\ (fetch_log.spot.requested /\ fetch_log.spot.reply # "ok")
          => spot_price = None
    /\ (fetch_log.chain.requested /\ fetch_log.chain.reply # "ok")
          => fetched = << >>

\* What the claim of C2 leaves in a row whose two requests were answered by
\* the replies s and g.
BestEffortRow(row, s, g) ==
    LET quoted == IF s.status = "ok" THEN WithSummary(row, s.body) ELSE row
    IN  IF g.status = "ok" THEN WithGreeks(quoted, g.body) ELSE quoted

\* C2: enrichment is best-effort per row: no failed request stops the loop,
\* and once it is over each row holds what its own two requests returned
\* (a failed one leaving that row's fields absent).
C2_EnrichmentIsBestEffortPerRow ==
    /\ error.at # "enrich"
    /\ Displayed =>
          /\ Len(enrich_log) = Len(enriched)
          /\ \A i \in 1..Len(enriched) :
                \E row \in SeqToSet(fetched) :
                    /\ row.Index = enriched[i].Index
                    /\ enriched[i] =
                          BestEffortRow(row, enrich_log[i].summary, enrich_log[i].greeks)

\* C3: the displayed rows are exactly the fetched rows of the requested type
\* whose expiry label contains the typed substring, case-insensitively, and
\* whose IV is present and at least min_iv.
C3_DisplayedRowsAreTheRetainedRows ==
    Displayed =>
        { row.Index : row \in SeqToSet(chain_df) }
          = { row.Index : row \in
                { r \in SeqToSet(fetched) :
                    IF \E e \in SeqToSet(enriched) : e.Index = r.Index
                    THEN Retained(r, (CHOOSE e \in SeqToSet(enriched) :
                                         e.Index = r.Index).IV)
                    ELSE Retained(r, min_iv) } }

\* C4: the displayed rows are in non-decreasing order of strike, rows of one
\* strike in the order of the fetch.
C4_SortIsStable ==
    Displayed =>
        \A i \in 1..(Len(chain_df) - 1) :
            \/ chain_df[i].Strike < chain_df[i + 1].Strike
            \/ /\ chain_df[i].Strike = chain_df[i + 1].Strike
               /\ chain_df[i].Index < chain_df[i + 1].Index

\* C5: premium is the midpoint of bid and ask whenever both are present, a
\* bid or ask of 0 included; it is 0, with the warning, when one is absent.
C5_PremiumIsTheMidpoint ==
    PremiumComputed =>
        /\ (SelectedRow.Bid # None /\ SelectedRow.Ask # None)
              => premium = SelectedRow.Bid + SelectedRow.Ask
        /\ (SelectedRow.Bid = None \/ SelectedRow.Ask = None)
              => (premium = 0 /\ warning)

\* C6: at every sample price p the profit/loss is
\* contracts * (premium - max(p - strike, 0)) for a call and
\* contracts * (premium - max(strike - p, 0)) for a put: premium * contracts
\* on the out-of-the-money side and at the strike, falling by contracts per
\* unit of price beyond it.  (premium in halves, contracts in tenths, the
\* curve in twentieths)
C6_PayoffCurve ==
    CurveComputed =>
        /\ Len(payoff) = Len(prices)
        /\ \A i \in 1..Len(prices) :
              LET p == prices[i]
                  k == SelectedRow.Strike
                  beyond == IF option_type = Call THEN p - k ELSE k - p
              IN  /\ beyond <= 0 => payoff[i] = premium * amount_to_sell
                  /\ beyond >= 0 =>
                        payoff[i] = premium * amount_to_sell
                                      - 2 * amount_to_sell * beyond
        /\ \A i \in 1..(Len(prices) - 1) :
              (option_type = Call /\ prices[i] >= SelectedRow.Strike)
                 => payoff[i + 1] - payoff[i]
                      = -(2 * amount_to_sell) * (prices[i + 1] - prices[i])

\* C6, the claim's first example: a call of strike 60000 sold once for a
\* premium of 500 loses 500 at 61000.
C6_Witness ==
    /\ CurveComputed
    /\ option_type = Call /\ SelectedRow.Strike = 60000
    /\ premium = 2 * 500 /\ amount_to_sell = 10
    /\ \E i \in 1..Len(prices) : prices[i] = 61000 /\ payoff[i] = 20 * (-500)

\* C6, the claim's second example: a put of strike 3000 sold twice for a
\* premium of 80 loses 40 at 2900.
C6_PutExample ==
    /\ CurveComputed
    /\ option_type = Put /\ SelectedRow.Strike = 3000
    /\ premium = 2 * 80 /\ amount_to_sell = 20
    /\ \E i \in 1..Len(prices) : prices[i] = 2900 /\ payoff[i] = 20 * (-40)

\* C7: max profit is premium * contracts; breakeven is strike + premium for
\* a call and strike - premium for a put; max loss is "Unlimited" for a call
\* and strike * contracts for a put; and at the breakeven price the payoff
\* formula gives 0.  (breakeven in halves, max_loss in tenths)
C7_RiskSummary ==
    RiskComputed =>
        /\ max_profit = premium * amount_to_sell
        /\ option_type = Call =>
              /\ breakeven - 2 * SelectedRow.Strike = premium
              /\ max_loss.unlimited
        /\ option_type = Put =>
              /\ 2 * SelectedRow.Strike - breakeven = premium
              /\ ~max_loss.unlimited
              /\ max_loss.value = SelectedRow.Strike * amount_to_sell
        /\ ShortPayoff(breakeven, 2 * SelectedRow.Strike, premium, option_type,
                       amount_to_sell) = 0

\* C7: a put sold for a non-zero premium has its risk summary.
C7_Witness ==
    /\ RiskComputed
    /\ option_type = Put /\ premium = 2 * 80 /\ amount_to_sell = 20
    /\ max_profit = 20 * 160 /\ breakeven = 2 * 2920 /\ max_loss.value = 10 * 6000

\* C8: the payoff curve never raises; a spot price that is absent, not
\* positive, or too small for a step is answered with an empty curve, and
\* every other spot price with a grid from 50% of spot, below 150% of spot,
\* in steps of 1% of spot, of more than one point.
C8_PayoffNeverRaises ==
    /\ error.at # "payoff"
    /\ CurveComputed =>
          IF spot_price = None \/ spot_price <= 0 \/ spot_price < 100
          THEN prices = << >>
          ELSE /\ Len(prices) > 1
               /\ 2 * prices[1] <= spot_price /\ spot_price < 2 * prices[1] + 2
               /\ 2 * prices[Len(prices)] < 3 * spot_price
               /\ \A i \in 1..(Len(prices) - 1) :
                     /\ prices[i + 1] > prices[i]
                     /\ 100 * (prices[i + 1] - prices[i]) <= spot_price

\* No fetched row passes the three predicates: the type and expiry
\* predicates match nothing, or every row they match was enriched and none
\* has an IV of at least min_iv.
NoRowSurvives ==
    /\ fetched # << >>
    /\ pc \in { "done", "crashed" }
    /\ \/ \A r \in SeqToSet(fetched) : ~Retained(r, min_iv)
       \/ /\ error.at \notin { "filter", "enrich" }
          /\ \A r \in SeqToSet(enriched) : ~Retained(r, r.IV)

\* C9: when no row survives the filter, the displayed frame is empty, no
\* instrument is selected, no payoff or risk summary is computed, and the
\* run ends without an error.
C9_EmptyResultIsHandled ==
    NoRowSurvives =>
        /\ pc = "done" /\ error = NoError
        /\ chain_df = << >>
        /\ selected_instrument = << >>
        /\ payoff = << >> /\ max_profit = 0 /\ max_loss = NoLoss

\* C10: the two memoized calls are invalidated by elapsed time alone: a
\* request goes to the ticker endpoint at most once per 60 time units and to
\* the instruments endpoint at most once per 300, whatever the user does,
\* and no result as old as its time-to-live is returned from the cache.
C10_OneRequestPerTTL ==
    /\ fetch_log.spot.requested => fetch_log.spot.gap >= SpotTTL
    /\ fetch_log.chain.requested => fetch_log.chain.gap >= ChainTTL
    /\ fetch_log.spot.cached => fetch_log.spot.age < SpotTTL
    /\ fetch_log.chain.cached => fetch_log.chain.age < ChainTTL

=============================================================================
